---- MODULE Spec2Model ----
(***************************************************************************)
(* A model of the semantic front-end of Vulpi:                             *)
(*   - the desugarer (crates/vulpi-desugar/src/lib.rs): the traversal of   *)
(*     the top-level items, the merging of let clauses and the lowering of *)
(*     expressions;                                                        *)
(*   - the expression inference of the typer                               *)
(*     (crates/vulpi-typer/src/infer/expr.rs);                             *)
(*   - the declare and define passes over modules                          *)
(*     (crates/vulpi-typer/src/lib.rs).                                    *)
(* Three specifications share the variables: Spec (desugarer), SpecInfer   *)
(* (expression inference) and SpecDeclare (the two passes).                *)
(***************************************************************************)
EXTENDS Integers, Sequences, FiniteSets, TLC

VARIABLES
    \* desugarer (DesugarCtx and the part of the input consumed so far)
    top_levels,   \* concrete::Program.top_levels, the items traversed so far
    right_now,    \* DesugarCtx.right_now : Option<Symbol>
    let_decls,    \* DesugarCtx.let_decls : HashMap<Symbol, Vec<LetCase>>
    reporter,     \* diagnostics reported by the desugarer, in order
    program,      \* DesugarCtx.program (uses, types, lets)
    phase,        \* "desugaring" until desugar() has flattened let_decls
    \* typer, expression inference
    expr,         \* the expression handed to Expr::infer
    context,      \* the Env handed to Expr::infer
    outcome,      \* what the call did: whether it was made, the type it
                  \* returned, its diagnostics and whether it panicked
    \* typer, declaration passes
    module,       \* the Module handed to declare/define
    pass,         \* "declare", "define" or "done"
    trace,        \* the declarations processed so far, in order
    \* typer, signatures of the declarations
    decl,         \* the TypeDecl or LetDecl handed to define / declare
    module_table, \* the constructors and variables inserted into the module
    diagnostics,  \* the diagnostics reported by the call, in order
    \* typer, kind inference of source types
    source_type,  \* the r#abstract::Type handed to Type::infer
    env,          \* the Env handed to Type::infer
    kinded        \* what the call returned: type, kind and diagnostics

vars == <<top_levels, right_now, let_decls, reporter, program, phase,
          expr, context, outcome, module, pass, trace,
          decl, module_table, diagnostics, source_type, env, kinded>>

desugarVars == <<top_levels, right_now, let_decls, reporter, program, phase>>
inferVars == <<expr, context, outcome>>
declareVars == <<module, pass, trace>>
signatureVars == <<decl, module_table, diagnostics>>
kindVars == <<source_type, env, kinded>>

\* ------------------------------------------------------------------------
\* Bounds of the model
\* ------------------------------------------------------------------------

MaxTops == 4

\* ------------------------------------------------------------------------
\* Generic helpers
\* ------------------------------------------------------------------------

None == <<>>
Some(x) == <<x>>

Last(s) == s[Len(s)]

\* ------------------------------------------------------------------------
\* Desugarer: concrete and abstract expressions
\* ------------------------------------------------------------------------

\* A node of the concrete or of the abstract tree: its kind, its name (an
\* identifier or a literal), its operator and its children.
Node(k, n, o, as) == [kind |-> k, name |-> n, op |-> o, args |-> as]

CIdent(x) == Node("Ident", x, "", <<>>)
CBinary(l, o, r) == Node("Binary", "", o, <<l, r>>)
CParenthesis(e) == Node("Parenthesis", "", "", <<e>>)

Operators ==
    {"Add", "Sub", "Mul", "Div", "Rem", "And", "Or", "Xor", "Not", "Eq", "Neq",
     "Lt", "Gt", "Le", "Ge", "Shl", "Shr", "Pipe"}

\* impl Desugar for concrete::Operator: each concrete operator token becomes
\* the abstract operator of the same variant.
DesugarOperator(o) ==
    CASE o = "Add" -> "Add" [] o = "Sub" -> "Sub" [] o = "Mul" -> "Mul"
      [] o = "Div" -> "Div" [] o = "Rem" -> "Rem" [] o = "And" -> "And"
      [] o = "Or" -> "Or" [] o = "Xor" -> "Xor" [] o = "Not" -> "Not"
      [] o = "Eq" -> "Eq" [] o = "Neq" -> "Neq" [] o = "Lt" -> "Lt"
      [] o = "Gt" -> "Gt" [] o = "Le" -> "Le" [] o = "Ge" -> "Ge"
      [] o = "Shl" -> "Shl" [] o = "Shr" -> "Shr" [] o = "Pipe" -> "Pipe"

\* impl Desugar for concrete::ExprKind (with the impls it dispatches to):
\* a parenthesis is replaced by its desugared payload, a Do becomes a Block,
\* every other node keeps its kind with its children desugared; a Binary
\* stays a Binary {left, op, right}.
RECURSIVE DesugarExpr(_)
DesugarExpr(e) ==
    CASE e.kind = "Parenthesis" -> DesugarExpr(e.args[1])
      [] e.kind = "Binary" ->
            Node("Binary", "", DesugarOperator(e.op),
                 <<DesugarExpr(e.args[1]), DesugarExpr(e.args[2])>>)
      [] e.kind = "Do" -> Node("Block", "", "", [i \in DOMAIN e.args |-> DesugarExpr(e.args[i])])
      [] OTHER -> Node(e.kind, e.name, "", [i \in DOMAIN e.args |-> DesugarExpr(e.args[i])])

\* impl Desugar for concrete::Binder, reduced to the pattern: the binder's
\* pattern, desugared (a Lower pattern keeps its name).
DesugarBinder(b) == [kind |-> "Lower", name |-> b]

\* ------------------------------------------------------------------------
\* Desugarer: the inputs of the model
\* ------------------------------------------------------------------------

Names == {"f", "g"}

\* the binder lists of a clause: a constant, or one binder
BinderLists == {<<>>, <<"a">>}

\* the bodies of a clause: `x`, and `(x + y) | f`
Bodies ==
    {CIdent("x"),
     CBinary(CParenthesis(CBinary(CIdent("x"), "Add", CIdent("y"))),
             "Pipe", CIdent("f"))}

NoExpr == Node("None", "", "", <<>>)

TopLevel(k, n, bs, e) == [kind |-> k, name |-> n, binders |-> bs, expr |-> e]

LetItems == {TopLevel("Let", n, bs, e) : n \in Names, bs \in BinderLists, e \in Bodies}
OtherItems ==
    {TopLevel("Type", "T", <<>>, NoExpr), TopLevel("Use", "M", <<>>, NoExpr),
     TopLevel("Error", "", <<>>, NoExpr)}

\* ------------------------------------------------------------------------
\* Desugarer: impl Desugar for concrete::LetDecl
\* ------------------------------------------------------------------------

Diagnostic(k, n, at) == [kind |-> k, name |-> n, at |-> at]

\* mutant: a clause with one binder counts as a constant too
IsConstAtMostOne(patterns) == Len(patterns) <= 1

\* `let is_const = patterns.is_empty();`
IsConst(patterns) == patterns = <<>>

\* `if let Some(exists) = ctx.let_decls.get_mut(&name)`
Exists(name) == name \in DOMAIN let_decls

\* `if Some(name.clone()) == ctx.right_now`
IsRightNow(name) == Some(name) = right_now

\* mutant: the case is put in front of the recorded ones
PushFront(cases, case) == <<case>> \o cases

\* `exists.push(case)`
Push(cases, case) == Append(cases, case)

\* mutant: right_now is set only when the name is inserted
RightNowOnInsert(name) == IF Exists(name) THEN right_now ELSE Some(name)

\* `ctx.right_now = Some(name);`, the last statement of the handler, run on
\* every path
NextRightNow(name) == Some(name)

\* The handler of one let clause, the `at`-th top-level item.
DesugarLetDecl(item, at) ==
    LET name == item.name
        patterns == [i \in DOMAIN item.binders |-> DesugarBinder(item.binders[i])]
        is_const == IsConst(patterns)
        case == [name_range |-> at, patterns |-> patterns,
                 body |-> DesugarExpr(item.expr)]
        redeclaration ==
            IF is_const THEN <<Diagnostic("Redeclaration", name, at)>> ELSE <<>>
        outOfOrder ==
            IF IsRightNow(name) THEN <<>>
            ELSE <<Diagnostic("OutOfOrderDefinition", name, at)>>
    IN  /\ IF Exists(name)
           THEN /\ reporter' = reporter \o redeclaration \o outOfOrder
                /\ let_decls' =
                       IF IsRightNow(name)
                       THEN [let_decls EXCEPT ![name] = Push(@, case)]
                       ELSE let_decls
           ELSE /\ reporter' = reporter
                /\ let_decls' = (name :> <<case>>) @@ let_decls
        /\ right_now' = NextRightNow(name)
        /\ UNCHANGED program

\* impl Desugar for concrete::Program, one iteration of the loop over
\* top_levels: a Let is merged, a Type and a Use are pushed on the program,
\* anything else is skipped.
DesugarTopLevel(item) ==
    /\ phase = "desugaring"
    /\ Len(top_levels) < MaxTops
    /\ top_levels' = Append(top_levels, item)
    /\ CASE item.kind = "Let" -> DesugarLetDecl(item, Len(top_levels) + 1)
         [] item.kind = "Type" ->
                /\ program' = [program EXCEPT !.types = Append(@, item.name)]
                /\ UNCHANGED <<right_now, let_decls, reporter>>
         [] item.kind = "Use" ->
                /\ program' = [program EXCEPT !.uses = Append(@, item.name)]
                /\ UNCHANGED <<right_now, let_decls, reporter>>
         [] OTHER -> UNCHANGED <<right_now, let_decls, reporter, program>>
    /\ UNCHANGED <<phase, inferVars, declareVars, signatureVars, kindVars>>

DesugarLet == \E item \in LetItems : DesugarTopLevel(item)
DesugarOther == \E item \in OtherItems : DesugarTopLevel(item)

\* The orders in which a HashMap may hand out the keys in `keys`.
Orders(keys) ==
    {s \in [1..Cardinality(keys) -> keys] : \A i, j \in DOMAIN s : i # j => s[i] # s[j]}

\* fn desugar, after the traversal: let_decls is flattened into the
\* program's lets, one LetDecl per key, in the map's iteration order; the
\* name's range is the first case's.
Flatten ==
    /\ phase = "desugaring"
    /\ \E order \in Orders(DOMAIN let_decls) :
          program' =
              [program EXCEPT !.lets =
                  [i \in DOMAIN order |->
                      [name |-> order[i],
                       name_range |-> let_decls[order[i]][1].name_range,
                       cases |-> let_decls[order[i]]]]]
    /\ phase' = "done"
    /\ UNCHANGED <<top_levels, right_now, let_decls, reporter, inferVars, declareVars, signatureVars, kindVars>>

\* ------------------------------------------------------------------------
\* Idle values of the variables a specification does not use
\* ------------------------------------------------------------------------

DesugarIdle ==
    /\ top_levels = <<>>
    /\ right_now = None
    /\ let_decls = <<>>
    /\ reporter = <<>>
    /\ program = [uses |-> <<>>, types |-> <<>>, lets |-> <<>>]
    /\ phase = "idle"

InferIdle ==
    /\ expr = "none"
    /\ context = "none"
    /\ outcome = "none"

DeclareIdle ==
    /\ module = "none"
    /\ pass = "idle"
    /\ trace = <<>>

SignatureIdle ==
    /\ decl = "none"
    /\ module_table = "none"
    /\ diagnostics = <<>>

KindIdle ==
    /\ source_type = "none"
    /\ env = "none"
    /\ kinded = "none"

\* ------------------------------------------------------------------------
\* Specification of the desugarer
\* ------------------------------------------------------------------------

\* DesugarCtx::new
Init ==
    /\ top_levels = <<>>
    /\ right_now = None
    /\ let_decls = <<>>
    /\ reporter = <<>>
    /\ program = [uses |-> <<>>, types |-> <<>>, lets |-> <<>>]
    /\ phase = "desugaring"
    /\ InferIdle
    /\ DeclareIdle
    /\ SignatureIdle
    /\ KindIdle

Next == DesugarLet \/ DesugarOther \/ Flatten

Spec == Init /\ [][Next]_vars

\* ------------------------------------------------------------------------
\* Desugarer: properties
\* ------------------------------------------------------------------------

\* the positions of the let clauses named n among the items traversed
ClausesOf(n) ==
    {i \in DOMAIN top_levels : top_levels[i].kind = "Let" /\ top_levels[i].name = n}

\* the name of the last let clause of s (types, uses and others skipped)
RECURSIVE LastLetName(_)
LastLetName(s) ==
    IF s = <<>> THEN None
    ELSE IF Last(s).kind = "Let" THEN Some(Last(s).name)
    ELSE LastLetName(SubSeq(s, 1, Len(s) - 1))

\* the case the i-th item, a let clause, stands for
CaseOf(i) ==
    [name_range |-> i,
     patterns |-> [k \in DOMAIN top_levels[i].binders |-> DesugarBinder(top_levels[i].binders[k])],
     body |-> DesugarExpr(top_levels[i].expr)]

\* this step traversed a let clause
LetStep ==
    /\ phase = "desugaring"
    /\ Len(top_levels') = Len(top_levels) + 1
    /\ Last(top_levels').kind = "Let"

\* this step reported the diagnostic d
Reported(d) ==
    \E k \in (Len(reporter) + 1)..Len(reporter') : reporter'[k] = d

\* the names of the let clauses of s, in order
RECURSIVE LetNames(_)
LetNames(s) ==
    IF s = <<>> THEN <<>>
    ELSE (IF Head(s).kind = "Let" THEN <<Head(s).name>> ELSE <<>>) \o LetNames(Tail(s))

\* C1: the program returned by desugar holds exactly one LetDecl for each
\* distinct name among the top-level let clauses of the input, and the cases
\* of each LetDecl are clauses of that name, in the order of the source.
C1_OneLetDeclPerName ==
    phase = "done" =>
        /\ \A n \in Names :
              Cardinality({i \in DOMAIN program.lets : program.lets[i].name = n})
                  = IF ClausesOf(n) # {} THEN 1 ELSE 0
        /\ \A i \in DOMAIN program.lets :
              LET d == program.lets[i]
              IN  /\ d.cases # <<>>
                  /\ \A k \in DOMAIN d.cases :
                        /\ d.cases[k].name_range \in ClausesOf(d.name)
                        /\ d.cases[k] = CaseOf(d.cases[k].name_range)
                  /\ \A k, l \in DOMAIN d.cases :
                        k < l => d.cases[k].name_range < d.cases[l].name_range

\* two names, one of them merged from several clauses
C1_Witness ==
    /\ phase = "done"
    /\ Len(program.lets) = 2
    /\ \E i \in DOMAIN program.lets : Len(program.lets[i].cases) >= 2

\* C2: OutOfOrderDefinition(n) is reported for a let clause named n exactly
\* when n already has recorded cases and the let clause traversed last before
\* it has another name; that clause is not appended and no recorded case
\* changes; after the clauses f, g, f both f and g hold one case.
C2_OutOfOrder ==
    [][LetStep =>
        LET n == Last(top_levels').name
            at == Len(top_levels')
            outOfOrder == Reported(Diagnostic("OutOfOrderDefinition", n, at))
        IN  /\ outOfOrder <=>
                  (n \in DOMAIN let_decls /\ LastLetName(top_levels) # Some(n))
            /\ \A m \in Names \ {n} :
                  ~Reported(Diagnostic("OutOfOrderDefinition", m, at))
            /\ outOfOrder => let_decls' = let_decls
            /\ LetNames(top_levels') = <<"f", "g", "f">> =>
                  /\ Len(let_decls'["f"]) = 1
                  /\ Len(let_decls'["g"]) = 1
    ]_vars

\* f, g, f: the third clause was reported, f and g hold one case each
C2_Witness ==
    /\ LetNames(top_levels) = <<"f", "g", "f">>
    /\ \E k \in DOMAIN reporter :
          reporter[k] = Diagnostic("OutOfOrderDefinition", "f", Len(top_levels))
    /\ Len(let_decls["f"]) = 1
    /\ Len(let_decls["g"]) = 1

\* C3: Redeclaration(n) is reported for a let clause exactly when the clause
\* has no binders and n already has a recorded case; the first clause of a
\* name never reports it.
C3_Redeclaration ==
    [][LetStep =>
        LET n == Last(top_levels').name
            at == Len(top_levels')
            redeclaration == Reported(Diagnostic("Redeclaration", n, at))
        IN  /\ redeclaration <=>
                  /\ Last(top_levels').binders = <<>>
                  /\ n \in DOMAIN let_decls
                  /\ Len(let_decls[n]) >= 1
            /\ ClausesOf(n) = {} => ~redeclaration
            /\ \A m \in Names \ {n} : ~Reported(Diagnostic("Redeclaration", m, at))
    ]_vars

\* a constant clause of a name that has a case was reported, and the first
\* clause of a constant was not
C3_Witness ==
    \E i, j \in DOMAIN top_levels :
        /\ i < j
        /\ top_levels[i].kind = "Let" /\ top_levels[j].kind = "Let"
        /\ top_levels[i].name = top_levels[j].name
        /\ top_levels[i].binders = <<>> /\ top_levels[j].binders = <<>>
        /\ ClausesOf(top_levels[i].name) = {i, j}
        /\ \E k \in DOMAIN reporter :
              reporter[k] = Diagnostic("Redeclaration", top_levels[j].name, j)
        /\ \A k \in DOMAIN reporter : reporter[k].at # i

\* a binary-operator node occurs in the abstract expression e
RECURSIVE HasBinary(_)
HasBinary(e) ==
    \/ e.kind = "Binary"
    \/ \E i \in DOMAIN e.args : HasBinary(e.args[i])

\* C4: a BinaryExpr {left, op, right} is desugared to an Application of the
\* operator's symbol to [left, right], the pipe `x | f` to the application
\* of f to x, and no binary-operator node is left in a desugared body.
C4_BinaryBecomesApplication ==
    \A n \in DOMAIN let_decls :
        \A k \in DOMAIN let_decls[n] :
            LET case == let_decls[n][k]
                source == top_levels[case.name_range].expr
            IN  source.kind = "Binary" =>
                    /\ case.body.kind = "Application"
                    /\ IF source.op = "Pipe"
                       THEN /\ Len(case.body.args) = 2
                            /\ ~HasBinary(case.body.args[1])
                            /\ ~HasBinary(case.body.args[2])
                       ELSE Len(case.body.args) = 3
                    /\ ~HasBinary(case.body)

\* a clause whose body is a binary expression has been desugared
C4_Witness ==
    \E n \in DOMAIN let_decls :
        \E k \in DOMAIN let_decls[n] :
            /\ top_levels[let_decls[n][k].name_range].expr.kind = "Binary"
            /\ let_decls[n][k].body.kind = "Binary"
            /\ let_decls[n][k].body.op = "Pipe"
            /\ let_decls[n][k].body.args[1].kind = "Binary"

\* some clause of n has been reported out of order
Rejected(n) ==
    \E k \in DOMAIN reporter :
        reporter[k].kind = "OutOfOrderDefinition" /\ reporter[k].name = n

\* C14: right_now changes only when a clause of a name that is not yet in
\* let_decls is traversed; so once a clause of n was reported out of order,
\* every later clause of n is reported out of order too and the cases of n
\* never grow again.
C14_RightNowOnlyOnInsert ==
    [][/\ right_now' # right_now =>
              (LetStep /\ Last(top_levels').name \notin DOMAIN let_decls)
       /\ (LetStep /\ Rejected(Last(top_levels').name)) =>
              LET n == Last(top_levels').name
              IN  /\ Reported(Diagnostic("OutOfOrderDefinition", n, Len(top_levels')))
                  /\ let_decls'[n] = let_decls[n]
    ]_vars

\* f, g, f, f: the third clause was reported, the fourth was appended
C14_Witness ==
    /\ LetNames(top_levels) = <<"f", "g", "f", "f">>
    /\ Len(top_levels) = 4
    /\ Rejected("f")
    /\ right_now = Some("f")
    /\ Len(let_decls["f"]) = 2
    /\ let_decls["f"][2].name_range = 4
    /\ \A k \in DOMAIN reporter : reporter[k].at # 4

\* C15: no LetDecl of the program returned by desugar that has a case
\* without patterns has more than one case.
C15_ConstantHasOneClause ==
    phase = "done" =>
        \A i \in DOMAIN program.lets :
            (\E k \in DOMAIN program.lets[i].cases :
                program.lets[i].cases[k].patterns = <<>>)
                => Len(program.lets[i].cases) = 1

\* `let f = ..` twice in a row: the second clause was reported as a
\* redeclaration, and the LetDecl of f has both cases
C15_Witness ==
    /\ phase = "done"
    /\ \E i \in DOMAIN program.lets :
          /\ Len(program.lets[i].cases) = 2
          /\ program.lets[i].cases[1].patterns = <<>>
          /\ program.lets[i].cases[2].patterns = <<>>
          /\ \E k \in DOMAIN reporter :
                reporter[k] = Diagnostic("Redeclaration", program.lets[i].name,
                                         program.lets[i].cases[2].name_range)

\* ------------------------------------------------------------------------
\* Typer: expressions, statements, arms, patterns and source types
\* ------------------------------------------------------------------------

\* A node of the abstract tree the typer reads.
T(k, n, as) == [kind |-> k, name |-> n, args |-> as]

Variable(x) == T("Variable", x, <<>>)
Literal(l) == T("Literal", l, <<>>)
ErrorExpr == T("Error", "", <<>>)
Annotation(e, ty) == T("Annotation", "", <<e, ty>>)
Do(statements) == T("Do", "", statements)
When(scrutinee, arms) == T("When", "", <<scrutinee>> \o arms)

StatementLet(pattern, e) == T("StatementLet", "", <<pattern, e>>)
StatementExpr(e) == T("StatementExpr", "", <<e>>)
StatementError == T("StatementError", "", <<>>)

NoGuard == T("NoGuard", "", <<>>)
PatternArm(patterns, guard, e) == T("PatternArm", "", <<T("Patterns", "", patterns), guard, e>>)

PatternLower(x) == T("PatternLower", x, <<>>)
PatternWildcard == T("PatternWildcard", "", <<>>)
PatternLiteral(l) == T("PatternLiteral", l, <<>>)

TypeConstructor(n) == T("Type", n, <<>>)
TypeVariable(n) == T("TypeVariable", n, <<>>)

\* The types are named: the built-in ones, the unfilled hole, the Error type.
\* NoType stands for the type of a call that did not return.
NoType == "none"
Hole == "Hole"
ErrorType == "Error"

\* A diagnostic of the typer.
TypeError(k, a, b) == [kind |-> k, a |-> a, b |-> b]

\* What a call did: returned the type ty, or panicked; diags are the
\* diagnostics it reported, in order.
Returned(ty, diags) == [panicked |-> FALSE, ty |-> ty, diags |-> diags]
Panicked(diags) == [panicked |-> TRUE, ty |-> NoType, diags |-> diags]

\* r, with the diagnostics reported before it
After(diags, r) == [r EXCEPT !.diags = diags \o @]

\* Env: the term variables in scope with their types, the type variables in
\* scope, and the names the imports resolve.
Env(variables, types, imports) ==
    [variables |-> variables, types |-> types, imports |-> imports]

\* Env::add_variable, for each name of a list of bindings
RECURSIVE AddVariables(_, _, _)
AddVariables(ctx, names, ty) ==
    IF names = <<>> THEN ctx
    ELSE AddVariables([ctx EXCEPT !.variables = (Head(names) :> ty) @@ @],
                      Tail(names), ty)

\* Env::import: the name as the imports resolve it, or None with a
\* CannotFind diagnostic
Import(ctx, name) ==
    IF name \in ctx.imports
    THEN [found |-> TRUE, diags |-> <<>>]
    ELSE [found |-> FALSE, diags |-> <<TypeError("CannotFind", name, "")>>]

\* Type::unify: nothing is reported when the types are equal, when either is
\* Error or when either is an unfilled hole; TypeMismatch otherwise.
Unify(left, right) ==
    IF left = right \/ left = ErrorType \/ right = ErrorType
       \/ left = Hole \/ right = Hole
    THEN <<>>
    ELSE <<TypeError("TypeMismatch", left, right)>>

\* what a hole unified with ty reads as afterwards
Filled(cell, ty) == IF cell = Hole THEN ty ELSE cell

\* Literal::infer: the built-in type of the literal
InferLiteral(l) == l

\* Pattern::infer: the type of the pattern (a fresh hole for a binder and for
\* a wildcard, the type of the literal for a literal) and the names it binds
InferPattern(p) ==
    CASE p.kind = "PatternLower" -> [ty |-> Hole, names |-> <<p.name>>]
      [] p.kind = "PatternLiteral" -> [ty |-> InferLiteral(p.name), names |-> <<>>]
      [] OTHER -> [ty |-> Hole, names |-> <<>>]

RECURSIVE PatternNames(_)
PatternNames(ps) ==
    IF ps = <<>> THEN <<>> ELSE InferPattern(Head(ps)).names \o PatternNames(Tail(ps))

\* Type::infer of a source type: a type constructor is its type, a type
\* variable is looked up (CannotFind and Error on a miss), Error is Error
InferType(ty, ctx) ==
    CASE ty.kind = "Type" -> [ty |-> ty.name, diags |-> <<>>]
      [] ty.kind = "TypeVariable" ->
            IF ty.name \in ctx.types
            THEN [ty |-> ty.name, diags |-> <<>>]
            ELSE [ty |-> ErrorType,
                  diags |-> <<TypeError("CannotFind", ty.name, "")>>]
      [] OTHER -> [ty |-> ErrorType, diags |-> <<>>]

\* mutant: a let statement leaves the block's type as it was
LetStatementKeeps(unit, res_ty) == res_ty

\* `res_ty = unit.clone()` at the end of StatementKind::Let
LetStatementType(unit, res_ty) == unit

\* `ty2`, the last expression of ExprKind::Annotation: the type inferred for
\* the annotated expression
AnnotationType(ty, ty2) == ty2

\* ------------------------------------------------------------------------
\* Typer: impl Infer for Expr, PatternArm and (usize, &Vec<&PatternArm>)
\* ------------------------------------------------------------------------

RECURSIVE Infer(_, _), InferStatements(_, _, _, _), InferArm(_, _),
          InferArms(_, _, _, _, _)

\* impl Infer for Expr
Infer(e, ctx) ==
    CASE e.kind = "Variable" ->
            \* context.variables.get(var).unwrap()
            IF e.name \in DOMAIN ctx.variables
            THEN Returned(ctx.variables[e.name], <<>>)
            ELSE Panicked(<<>>)
      [] e.kind = "Literal" -> Returned(InferLiteral(e.name), <<>>)
      [] e.kind = "Error" -> Returned(ErrorType, <<>>)
      [] e.kind = "Annotation" ->
            LET ty == InferType(e.args[2], ctx)
                ty2 == Infer(e.args[1], ctx)
            IN  IF ty2.panicked THEN After(ty.diags, ty2)
                ELSE Returned(AnnotationType(ty.ty, ty2.ty),
                              ty.diags \o ty2.diags \o Unify(ty.ty, ty2.ty))
      [] e.kind = "Do" ->
            LET unit_qual == Import(ctx, "Unit")
            IN  IF ~unit_qual.found
                THEN Returned(ErrorType, unit_qual.diags)
                ELSE InferStatements(e.args, ctx, "Unit", "Unit")
      [] e.kind = "When" ->
            LET scrutinee == Infer(e.args[1], ctx)
            IN  IF scrutinee.panicked THEN scrutinee
                ELSE LET arms == InferArms(1, Tail(e.args), ctx, <<Hole>>, Hole)
                     IN  IF arms.panicked
                         THEN Panicked(scrutinee.diags \o arms.diags)
                         ELSE IF Len(arms.tys) = 1
                         THEN Returned(arms.ty,
                                       scrutinee.diags \o arms.diags
                                           \o Unify(scrutinee.ty, arms.tys[1]))
                         ELSE Returned(ErrorType, scrutinee.diags \o arms.diags)

\* the loop of ExprKind::Do over the statements left, res_ty being the type
\* of the block so far
InferStatements(statements, ctx, unit, res_ty) ==
    IF statements = <<>> THEN Returned(res_ty, <<>>)
    ELSE
        LET st == Head(statements)
        IN  CASE st.kind = "StatementLet" ->
                    LET pat == InferPattern(st.args[1])
                        body == Infer(st.args[2], ctx)
                    IN  IF body.panicked THEN body
                        ELSE After(body.diags \o Unify(pat.ty, body.ty),
                                   InferStatements(
                                       Tail(statements),
                                       AddVariables(ctx, pat.names,
                                                    Filled(pat.ty, body.ty)),
                                       unit, LetStatementType(unit, res_ty)))
              [] st.kind = "StatementExpr" ->
                    LET r == Infer(st.args[1], ctx)
                    IN  IF r.panicked THEN r
                        ELSE After(r.diags,
                                   InferStatements(Tail(statements), ctx, unit, r.ty))
              [] OTHER -> Panicked(<<>>)   \* StatementKind::Error => todo!()

\* impl Infer for PatternArm
InferArm(arm, ctx) ==
    LET patterns == arm.args[1].args
        tys == [i \in DOMAIN patterns |-> InferPattern(patterns[i]).ty]
        inner == AddVariables(ctx, PatternNames(patterns), Hole)
        guard ==
            IF arm.args[2].kind = "NoGuard" THEN Returned(NoType, <<>>)
            ELSE LET ty == Infer(arm.args[2], inner)
                 IN  IF ty.panicked THEN ty
                     \* context.imports.get(&Symbol::intern("Bool")).unwrap()
                     ELSE IF "Bool" \notin inner.imports THEN Panicked(ty.diags)
                     ELSE Returned(NoType, ty.diags \o Unify(ty.ty, "Bool"))
    IN  IF guard.panicked THEN [tys |-> tys] @@ guard
        ELSE [tys |-> tys] @@ After(guard.diags, Infer(arm.args[3], inner))

\* mutant: an arm of any number of patterns is taken
HasAnyArity(arm, size) == TRUE

\* the negation of `arm.patterns.len() != *size`
HasArity(arm, size) == Len(arm.args[1].args) = size

\* impl Infer for (usize, &Vec<&PatternArm>): the loop over the arms left,
\* types and ret being the holes made before the loop as they read by now
InferArms(size, arms, ctx, types, ret) ==
    IF arms = <<>> THEN [tys |-> types] @@ Returned(ret, <<>>)
    ELSE
        LET arm == Head(arms)
            got == Len(arm.args[1].args)
        IN  IF ~HasArity(arm, size)
            THEN [tys |-> <<>>] @@
                 Returned(ErrorType,
                          <<TypeError("WrongArity", ToString(size), ToString(got))>>)
            ELSE
                LET r == InferArm(arm, ctx)
                    unified ==
                        [i \in DOMAIN types |-> Filled(types[i], r.tys[i])]
                    RECURSIVE UnifyAll(_)
                    UnifyAll(i) ==
                        IF i > Len(types) THEN <<>>
                        ELSE Unify(types[i], r.tys[i]) \o UnifyAll(i + 1)
                IN  IF r.panicked THEN r
                    ELSE LET rest == InferArms(size, Tail(arms), ctx, unified,
                                               Filled(ret, r.ty))
                         IN  [tys |-> rest.tys] @@
                             After(r.diags \o UnifyAll(1) \o Unify(ret, r.ty),
                                   [panicked |-> rest.panicked, ty |-> rest.ty,
                                    diags |-> rest.diags])

\* ------------------------------------------------------------------------
\* Typer: the environments of Expr::infer
\* ------------------------------------------------------------------------

\* mutant: the bindings that the callee added stay with the caller
SharedEnv(caller, callee) == callee

\* `x.infer(context.clone())`: the callee owns the Env it is handed, so
\* the caller's Env after the call is the one it held before
AfterCall(caller, callee) == caller

\* the sub-expression at `path` (the indices of the args on the way from
\* the expression that was handed to infer) is inferred with `ctx`
Scoped(path, ctx) == <<[path |-> path, variables |-> ctx.variables]>>

\* what a frame does to environments: the sub-expressions it infers, in
\* order, each with its term variables, and the Env it holds at its end
Frame(visited, ctx) == [visited |-> visited, context |-> ctx]

\* impl Infer for Expr, for PatternArm and for the arm group, of a call that
\* returns: the environments. Scopes(e, i, ctx, path) is the frame of e at
\* `path` from its i-th item on, holding ctx: i = 0 is the entry of the
\* frame, the i-th item of a do-block is its i-th statement, and the i-th
\* item of a when, i >= 2, is the arm e.args[i].
RECURSIVE Scopes(_, _, _, _)
Scopes(e, i, ctx, path) ==
    CASE e.kind = "Annotation" ->
            LET ty2 == Scopes(e.args[1], 0, ctx, path \o <<1>>)
            IN  Frame(Scoped(path, ctx) \o ty2.visited,
                      AfterCall(ctx, ty2.context))
      [] e.kind = "Do" /\ i = 0 ->
            IF ~Import(ctx, "Unit").found THEN Frame(Scoped(path, ctx), ctx)
            ELSE LET r == Scopes(e, 1, ctx, path)
                 IN  Frame(Scoped(path, ctx) \o r.visited, r.context)
      [] e.kind = "Do" /\ i > Len(e.args) -> Frame(<<>>, ctx)
      [] e.kind = "Do" /\ e.args[i].kind = "StatementLet" ->
            \* the bound expression is handed a clone; add_variable comes after
            LET pat == InferPattern(e.args[i].args[1])
                body == Scopes(e.args[i].args[2], 0, ctx, path \o <<i, 2>>)
                rest == Scopes(e, i + 1,
                               AddVariables(AfterCall(ctx, body.context),
                                            pat.names,
                                            Filled(pat.ty,
                                                   Infer(e.args[i].args[2], ctx).ty)),
                               path)
            IN  Frame(body.visited \o rest.visited, rest.context)
      [] e.kind = "Do" /\ e.args[i].kind = "StatementExpr" ->
            LET r == Scopes(e.args[i].args[1], 0, ctx, path \o <<i, 1>>)
                rest == Scopes(e, i + 1, AfterCall(ctx, r.context), path)
            IN  Frame(r.visited \o rest.visited, rest.context)
      [] e.kind = "When" /\ i = 0 ->
            LET scrutinee == Scopes(e.args[1], 0, ctx, path \o <<1>>)
                arms == Scopes(e, 2, AfterCall(ctx, scrutinee.context), path)
            IN  Frame(Scoped(path, ctx) \o scrutinee.visited \o arms.visited,
                      arms.context)
      [] e.kind = "When" /\ (i > Len(e.args) \/ ~HasArity(e.args[i], 1)) ->
            Frame(<<>>, ctx)
      [] e.kind = "When" ->
            \* PatternArm::infer is handed a clone: it adds the bindings of
            \* its patterns, hands the guard a clone and the body its Env
            LET arm == e.args[i]
                inner == AddVariables(ctx, PatternNames(arm.args[1].args), Hole)
                guard == IF arm.args[2].kind = "NoGuard" THEN Frame(<<>>, inner)
                         ELSE Scopes(arm.args[2], 0, inner, path \o <<i, 2>>)
                result == Scopes(arm.args[3], 0,
                                 AfterCall(inner, guard.context),
                                 path \o <<i, 3>>)
                rest == Scopes(e, i + 1, AfterCall(ctx, result.context), path)
            IN  Frame(guard.visited \o result.visited \o rest.visited,
                      rest.context)
      [] OTHER -> Frame(Scoped(path, ctx), ctx)

\* ------------------------------------------------------------------------
\* Typer: the inputs of the model
\* ------------------------------------------------------------------------

MaxStatements == 3
MaxArms == 2

\* the sequences over S of length at most n
SeqsUpTo(S, n) == UNION {[1..k -> S] : k \in 0..n}

Leaves == {Variable("x"), Variable("y"), Literal("Int"), ErrorExpr}

StatementExprs == Leaves \cup {Do(<<StatementExpr(Literal("Bool"))>>)}

Statements ==
    {StatementLet(PatternLower("x"), e) : e \in StatementExprs}
        \cup {StatementExpr(e) : e \in StatementExprs}
        \cup {StatementError}

Arms ==
    {PatternArm(ps, g, e) :
        ps \in {<<PatternLower("x")>>, <<PatternLiteral("Int")>>,
                <<PatternLower("x"), PatternWildcard>>},
        g \in {NoGuard, Variable("y")},
        e \in {Variable("x"), Literal("Int"), Literal("Bool")}}

Exprs ==
    Leaves
        \* blocks that bind a name inside an expression that has
        \* expressions after it
        \cup
        {Do(<<StatementExpr(Do(<<StatementLet(PatternLower("x"), Literal("Int"))>>)),
              StatementExpr(Literal("Int"))>>),
         When(Do(<<StatementLet(PatternLower("x"), Literal("Int"))>>),
              <<PatternArm(<<PatternLiteral("Int")>>, NoGuard, Literal("Int"))>>),
         When(Literal("Int"),
              <<PatternArm(<<PatternLower("x")>>, NoGuard,
                           Do(<<StatementLet(PatternLower("z"), Variable("x"))>>)),
                PatternArm(<<PatternWildcard>>, NoGuard, Literal("Int"))>>)}
        \cup {Do(ss) : ss \in SeqsUpTo(Statements, MaxStatements)}
        \cup {Annotation(e, ty) :
                e \in Leaves \cup {Do(<<StatementLet(PatternLower("x"), Literal("Int"))>>)},
                ty \in {TypeConstructor("Int"), TypeConstructor("Bool"),
                        TypeVariable("a")}}
        \cup {When(sc, as) :
                sc \in {Variable("y"), Literal("Int")},
                as \in SeqsUpTo(Arms, MaxArms)}

Envs ==
    {Env(vs, {}, is) :
        vs \in {<<>>, "y" :> "Int", "y" :> "Bool"},
        is \in SUBSET {"Unit", "Bool"}}

\* ------------------------------------------------------------------------
\* Specification of the expression inference
\* ------------------------------------------------------------------------

InitInfer ==
    /\ expr \in Exprs
    /\ context \in Envs
    /\ outcome = [called |-> FALSE, visited |-> <<>>,
                  after |-> context.variables] @@ Returned(NoType, <<>>)
    /\ DesugarIdle
    /\ DeclareIdle
    /\ SignatureIdle
    /\ KindIdle

\* one call of Expr::infer on expr in context
InferExpr ==
    /\ ~outcome.called
    /\ LET frame == Scopes(expr, 0, context, <<>>)
       IN  outcome' = [called |-> TRUE, visited |-> frame.visited,
                       after |-> AfterCall(context, frame.context).variables]
                          @@ Infer(expr, context)
    /\ UNCHANGED <<expr, context, desugarVars, declareVars, signatureVars, kindVars>>

NextInfer == InferExpr

SpecInfer == InitInfer /\ [][NextInfer]_vars

\* ------------------------------------------------------------------------
\* Expression inference: properties
\* ------------------------------------------------------------------------

\* the call reported the diagnostic d
HasDiagnostic(d) == \E k \in DOMAIN outcome.diags : outcome.diags[k] = d

\* C5: inferring a Variable whose name is not among the term variables of
\* the environment reports UnresolvedVariable and returns a type; the call
\* does not abort.
C5_UnresolvedVariable ==
    (outcome.called /\ expr.kind = "Variable"
        /\ expr.name \notin DOMAIN context.variables) =>
        /\ ~outcome.panicked
        /\ outcome.ty # NoType
        /\ HasDiagnostic(TypeError("UnresolvedVariable", expr.name, ""))

\* an unbound variable was inferred, and the call panicked
C5_Witness ==
    /\ outcome.called
    /\ expr = Variable("x")
    /\ "x" \notin DOMAIN context.variables
    /\ outcome.panicked
    /\ outcome.diags = <<>>

\* the statements of a block that are no Error statement hold literals and
\* Error expressions only, which are inferred without a lookup
OnlyErrorStatements(statements) ==
    \A i \in DOMAIN statements :
        \/ statements[i].kind = "StatementError"
        \/ /\ statements[i].kind = "StatementExpr"
           /\ statements[i].args[1] \in {Literal("Int"), ErrorExpr}
        \/ /\ statements[i].kind = "StatementLet"
           /\ statements[i].args[2] \in {Literal("Int"), ErrorExpr}

\* C6: inferring a do-block one of whose statements is an Error statement
\* returns a type; no panic is reached.
C6_ErrorStatementNoPanic ==
    (outcome.called /\ expr.kind = "Do"
        /\ OnlyErrorStatements(expr.args)
        /\ \E i \in DOMAIN expr.args : expr.args[i].kind = "StatementError") =>
        /\ ~outcome.panicked
        /\ outcome.ty # NoType

\* `{ 1; <error> }` with Unit resolved: the call panicked
C6_Witness ==
    /\ outcome.called
    /\ expr = Do(<<StatementExpr(Literal("Int")), StatementError>>)
    /\ "Unit" \in context.imports
    /\ outcome.panicked

\* the arms of a when: the first one has one pattern and a guard
FirstArmGuarded(e) ==
    /\ Len(e.args) >= 2
    /\ Len(e.args[2].args[1].args) = 1
    /\ e.args[2].args[2].kind # "NoGuard"

\* C7: when `Unit` does not resolve while a do-block is inferred, or `Bool`
\* does not while an arm with a guard is, the construct gets the Error type
\* with a CannotFind diagnostic, and the call does not abort.
C7_MissingBuiltin ==
    /\ (outcome.called /\ expr.kind = "Do" /\ "Unit" \notin context.imports) =>
          /\ ~outcome.panicked
          /\ outcome.ty = ErrorType
          /\ HasDiagnostic(TypeError("CannotFind", "Unit", ""))
    /\ (outcome.called /\ expr.kind = "When" /\ FirstArmGuarded(expr)
           /\ "y" \in DOMAIN context.variables
           /\ "Bool" \notin context.imports) =>
          /\ ~outcome.panicked
          /\ outcome.ty = ErrorType
          /\ HasDiagnostic(TypeError("CannotFind", "Bool", ""))

\* Bool is missing and a guarded arm was inferred: the call panicked; and a
\* do-block without Unit is the other case
C7_Witness ==
    /\ outcome.called
    /\ expr = When(Literal("Int"),
                   <<PatternArm(<<PatternLower("x")>>, Variable("y"), Literal("Int"))>>)
    /\ context.variables = ("y" :> "Bool")
    /\ "Bool" \notin context.imports
    /\ outcome.panicked

\* the environment after the let statements among `statements`: each binds
\* the names of its pattern to the type of its expression, inferred in the
\* environment of the statements before it
RECURSIVE ScopeAfter(_, _)
ScopeAfter(statements, ctx) ==
    IF statements = <<>> THEN ctx
    ELSE LET st == Head(statements)
         IN  IF st.kind = "StatementLet"
             THEN ScopeAfter(Tail(statements),
                             AddVariables(ctx, InferPattern(st.args[1]).names,
                                          Infer(st.args[2], ctx).ty))
             ELSE ScopeAfter(Tail(statements), ctx)

\* C8: when Unit resolves, the type inferred for a do-block is Unit if the
\* block is empty or ends in a let statement, and otherwise the type
\* inferred for its last expression statement in the environment extended
\* by the let statements before it, whatever the expression statements
\* before it are.
C8_DoBlockType ==
    (outcome.called /\ expr.kind = "Do" /\ "Unit" \in context.imports
        /\ ~outcome.panicked) =>
        LET statements == expr.args
        IN  IF statements = <<>> \/ Last(statements).kind = "StatementLet"
            THEN outcome.ty = "Unit"
            ELSE /\ Last(statements).kind = "StatementExpr"
                 /\ outcome.ty =
                        Infer(Last(statements).args[1],
                              ScopeAfter(SubSeq(statements, 1, Len(statements) - 1),
                                         context)).ty

\* `{ y; let x = 1; x }` has the type Int, with x not in scope outside
C8_Witness ==
    /\ outcome.called
    /\ expr = Do(<<StatementExpr(Variable("y")),
                   StatementLet(PatternLower("x"), Literal("Int")),
                   StatementExpr(Variable("x"))>>)
    /\ context.variables = ("y" :> "Bool")
    /\ ~outcome.panicked
    /\ outcome.ty = "Int"

\* C9: inferring `e : T` returns the type elaborated from T, whether or not
\* the type inferred for e unifies with it.
C9_AnnotationType ==
    (outcome.called /\ expr.kind = "Annotation" /\ ~outcome.panicked) =>
        outcome.ty = InferType(expr.args[2], context).ty

\* `(y : Int)` with y : Bool: a mismatch is reported and Bool is returned
C9_Witness ==
    /\ outcome.called
    /\ expr = Annotation(Variable("y"), TypeConstructor("Int"))
    /\ context.variables = ("y" :> "Bool")
    /\ outcome.ty = "Bool"
    /\ HasDiagnostic(TypeError("TypeMismatch", "Int", "Bool"))

\* the arms of a When, and the number of patterns of an arm
WhenArms(e) == Tail(e.args)
ArityOf(arm) == Len(arm.args[1].args)

\* the arms of expr that do not have exactly one pattern
WrongArms == {j \in DOMAIN WhenArms(expr) : ArityOf(WhenArms(expr)[j]) # 1}

FirstWrongArm == CHOOSE j \in WrongArms : \A i \in WrongArms : j <= i

\* what the cell that tys[1], .., tys[j] were unified with in turn holds:
\* the first of them that is not a hole
Cell(tys, j) ==
    LET S == {i \in 1..j : tys[i] # Hole}
    IN  IF S = {} THEN Hole ELSE tys[CHOOSE i \in S : \A k \in S : i <= k]

\* the types of the first patterns and of the bodies of the arms of expr,
\* each arm taken alone
ArmPatternTypes ==
    [j \in DOMAIN WhenArms(expr) |->
        InferPattern(WhenArms(expr)[j].args[1].args[1]).ty]

ArmBodyTypes ==
    [j \in DOMAIN WhenArms(expr) |-> InferArm(WhenArms(expr)[j], context).ty]

IsWrongArity(d) == d.kind = "WrongArity"

C17_LaterArmsElaborated ==
    (outcome.called /\ expr.kind = "When" /\ ~outcome.panicked) =>
        \A i \in WrongArms : \A j \in DOMAIN WhenArms(expr) :
            (j > i /\ ~InferArm(WhenArms(expr)[j], context).panicked) =>
                LET diags == InferArm(WhenArms(expr)[j], context).diags
                IN  \A k \in DOMAIN diags : HasDiagnostic(diags[k])

\* the guard of the second arm is an Int: its TypeMismatch is not reported
C17_Witness ==
    /\ outcome.called /\ ~outcome.panicked
    /\ expr = When(Literal("Int"),
                   <<PatternArm(<<PatternLower("x"), PatternWildcard>>, NoGuard,
                                Literal("Int")),
                     PatternArm(<<PatternLower("x")>>, Variable("y"),
                                Literal("Int"))>>)
    /\ context.variables = ("y" :> "Int")
    /\ "Bool" \in context.imports
    /\ outcome.diags = <<TypeError("WrongArity", "1", "2")>>
    /\ InferArm(WhenArms(expr)[2], context).diags
           = <<TypeError("TypeMismatch", "Int", "Bool")>>

\* the set of the names of a sequence of names
Range(names) == {names[i] : i \in DOMAIN names}

\* the names that statements 1..i-1 of a block bind
BoundBefore(statements, i) ==
    UNION {IF statements[k].kind = "StatementLet"
           THEN Range(InferPattern(statements[k].args[1]).names) ELSE {}
           : k \in 1..(i - 1)}

\* the names that are lexically in scope at `path` in e, when `names` are
\* in scope at e
RECURSIVE LexicalScope(_, _, _)
LexicalScope(e, names, path) ==
    IF path = <<>> THEN names
    ELSE CASE e.kind = "When" /\ path[1] > 1 ->
                  \* the guard or the body of an arm: the arm's own patterns
                  LET arm == e.args[path[1]]
                  IN  LexicalScope(arm.args[path[2]],
                                   names \cup Range(PatternNames(arm.args[1].args)),
                                   SubSeq(path, 3, Len(path)))
           [] e.kind = "Do" ->
                  \* the expression of a statement: the lets before it
                  LexicalScope(e.args[path[1]].args[path[2]],
                               names \cup BoundBefore(e.args, path[1]),
                               SubSeq(path, 3, Len(path)))
           [] OTHER ->
                  \* the scrutinee of a when, the expression of an annotation
                  LexicalScope(e.args[path[1]], names, Tail(path))

\* C21: term bindings are lexically scoped: every sub-expression is
\* inferred with exactly the caller's term variables and the names bound
\* around it (the patterns of its own arm for a guard and a body, the
\* earlier lets of its block for a statement), and when infer returns the
\* caller's environment holds the term variables it held before.
C21_LexicalScope ==
    (outcome.called /\ ~outcome.panicked) =>
        /\ outcome.after = context.variables
        /\ \A k \in DOMAIN outcome.visited :
              DOMAIN outcome.visited[k].variables
                  = LexicalScope(expr, DOMAIN context.variables,
                                 outcome.visited[k].path)

\* the first arm binds x and a let in its body binds z; the second arm is
\* inferred without either, and so is the caller afterwards
C21_Witness ==
    /\ outcome.called /\ ~outcome.panicked
    /\ expr = When(Literal("Int"),
          <<PatternArm(<<PatternLower("x")>>, NoGuard,
                       Do(<<StatementLet(PatternLower("z"), Variable("x"))>>)),
            PatternArm(<<PatternWildcard>>, NoGuard, Literal("Int"))>>)
    /\ context.variables = ("y" :> "Int")
    /\ "Unit" \in context.imports
    /\ outcome.after = ("y" :> "Int")
    /\ \E k \in DOMAIN outcome.visited :
          /\ outcome.visited[k].path = <<2, 3, 1, 2>>
          /\ DOMAIN outcome.visited[k].variables = {"x", "y"}
    /\ \E k \in DOMAIN outcome.visited :
          /\ outcome.visited[k].path = <<3, 3>>
          /\ DOMAIN outcome.visited[k].variables = {"y"}

\* ------------------------------------------------------------------------
\* Typer: the declare and define passes over the modules
\* ------------------------------------------------------------------------

\* A module: its namespace and its types, effects, submodules and lets.
ModuleOf(namespace, types, effects, modules, lets) ==
    [namespace |-> namespace, types |-> types, effects |-> effects,
     modules |-> modules, lets |-> lets]

\* One declaration processed by a pass.
Processed(p, kind, name, namespace) ==
    [pass |-> p, kind |-> kind, name |-> name, namespace |-> namespace]

\* `for decl in <decls> { decl.<pass>(context.clone()) }`
Each(p, kind, names, namespace) ==
    [i \in DOMAIN names |-> Processed(p, kind, names[i], namespace)]

RECURSIVE ModuleDeclPass(_, _), ModuleDeclsPass(_, _)

\* impl Declare for ModuleDecl, declare and define alike: the types, the
\* effects, the submodules, the lets
ModuleDeclPass(p, m) ==
    Each(p, "type", m.types, m.namespace)
        \o Each(p, "effect", m.effects, m.namespace)
        \o ModuleDeclsPass(p, m.modules)
        \o Each(p, "let", m.lets, m.namespace)

\* `for decl in modules { decl.<pass>(context.clone()) }`
ModuleDeclsPass(p, ms) ==
    IF ms = <<>> THEN <<>>
    ELSE ModuleDeclPass(p, Head(ms)) \o ModuleDeclsPass(p, Tail(ms))

\* Module::declare: the types, the effects, the submodules, the lets
ModuleDeclare(m) ==
    Each("declare", "type", m.types, m.namespace)
        \o Each("declare", "effect", m.effects, m.namespace)
        \o ModuleDeclsPass("declare", m.modules)
        \o Each("declare", "let", m.lets, m.namespace)

\* Module::define: the submodules, the types, the effects, the lets
ModuleDefine(m) ==
    ModuleDeclsPass("define", m.modules)
        \o Each("define", "type", m.types, m.namespace)
        \o Each("define", "effect", m.effects, m.namespace)
        \o Each("define", "let", m.lets, m.namespace)

\* ------------------------------------------------------------------------
\* The passes: the inputs of the model
\* ------------------------------------------------------------------------

MaxModules == 2

\* a module at `namespace` without submodules
Flat(namespace) ==
    {ModuleOf(namespace, ts, es, <<>>, ls) :
        ts \in {<<>>, <<"T">>}, es \in {<<>>, <<"E">>}, ls \in {<<>>, <<"l">>}}

\* the i-th submodule of the top level: flat, or with one submodule
ModuleDecls(i) ==
    Flat(<<i>>)
        \cup {ModuleOf(<<i>>, <<"T">>, <<>>, <<inner>>, <<"l">>) : inner \in Flat(<<i, 1>>)}

Modules ==
    {ModuleOf(<<>>, top.types, top.effects, ms, top.lets) :
        top \in Flat(<<>>),
        ms \in UNION {{s \in [1..k -> UNION {ModuleDecls(i) : i \in 1..k}] :
                          \A i \in 1..k : s[i] \in ModuleDecls(i)} :
                      k \in 0..MaxModules}}

\* ------------------------------------------------------------------------
\* Specification of the passes
\* ------------------------------------------------------------------------

InitDeclare ==
    /\ module \in Modules
    /\ pass = "declare"
    /\ trace = <<>>
    /\ DesugarIdle
    /\ InferIdle
    /\ SignatureIdle
    /\ KindIdle

\* the declare pass over the whole module
Declare ==
    /\ pass = "declare"
    /\ trace' = trace \o ModuleDeclare(module)
    /\ pass' = "define"
    /\ UNCHANGED <<module, desugarVars, inferVars, signatureVars, kindVars>>

\* the define pass over the whole module, after the declare pass
Define ==
    /\ pass = "define"
    /\ trace' = trace \o ModuleDefine(module)
    /\ pass' = "done"
    /\ UNCHANGED <<module, desugarVars, inferVars, signatureVars, kindVars>>

NextDeclare == Declare \/ Define

SpecDeclare == InitDeclare /\ [][NextDeclare]_vars

\* ------------------------------------------------------------------------
\* The passes: properties
\* ------------------------------------------------------------------------

IsPrefix(s, t) == Len(s) <= Len(t) /\ SubSeq(t, 1, Len(s)) = s

\* where a processed declaration stands at the level of the module at
\* `namespace`: its types 1, its effects 2, what is inside its submodules 3,
\* its lets 4; 0 when the declaration is not of that module
Stage(d, namespace) ==
    IF d.namespace = namespace
    THEN CASE d.kind = "type" -> 1 [] d.kind = "effect" -> 2 [] OTHER -> 4
    ELSE IF IsPrefix(namespace, d.namespace) THEN 3 ELSE 0

\* the namespaces of the modules the trace has declarations of, and of the
\* modules around them
Namespaces ==
    UNION {{SubSeq(trace[i].namespace, 1, k) : k \in 0..Len(trace[i].namespace)} :
           i \in DOMAIN trace}

\* C10: in the declare pass and in the define pass, at every module level,
\* the declarations are processed in the order: the types, then the
\* effects, then the submodules, then the lets.
C10_PassOrder ==
    \A namespace \in Namespaces :
        \A i, j \in DOMAIN trace :
            (i < j /\ trace[i].pass = trace[j].pass
                /\ Stage(trace[i], namespace) # 0
                /\ Stage(trace[j], namespace) # 0) =>
                Stage(trace[i], namespace) <= Stage(trace[j], namespace)

\* the define pass has processed a type of the top level after a
\* declaration of a submodule
C10_Witness ==
    /\ pass = "done"
    /\ \E i, j \in DOMAIN trace :
          /\ i < j
          /\ trace[i].pass = "define" /\ trace[j].pass = "define"
          /\ trace[i].namespace = <<1>>
          /\ trace[j].namespace = <<>> /\ trace[j].kind = "type"

\* C13: whenever the define pass processes a let, at the top level or in a
\* nested module, the define pass has already processed every type and
\* every effect of the module of the let and of the modules around it.
C13_LetsDefinedAfterTypes ==
    \A i, j \in DOMAIN trace :
        (/\ trace[i].pass = "define" /\ trace[i].kind = "let"
         /\ trace[j].pass = "define" /\ trace[j].kind \in {"type", "effect"}
         /\ IsPrefix(trace[j].namespace, trace[i].namespace))
            => j < i

\* the let of a submodule was defined before a type of the top level
C13_Witness ==
    /\ pass = "done"
    /\ \E i, j \in DOMAIN trace :
          /\ i < j
          /\ trace[i].pass = "define" /\ trace[i].kind = "let"
          /\ trace[i].namespace = <<1>>
          /\ trace[j].pass = "define" /\ trace[j].kind = "type"
          /\ trace[j].namespace = <<>>

\* ------------------------------------------------------------------------
\* Typer: the signatures stored by TypeDecl::define and LetDecl::declare
\* ------------------------------------------------------------------------

\* kind::Kind
Kind_star == T("Star", "", <<>>)
Kind_arrow(x, acc) == T("Arrow", "", <<x, acc>>)
Kind_error == T("Error", "", <<>>)

\* types::Type
Type_named(name) == T("Named", name, <<>>)
Type_variable(name) == T("Variable", name, <<>>)
Type_app(f, args) == T("App", "", <<f>> \o args)
Type_arrow(x, acc) == T("Arrow", "", <<x, acc>>)
Type_forall(n, k, acc) == T("Forall", n, <<k, acc>>)
Type_error == T("Error", "", <<>>)
Type_hole == T("Hole", "", <<>>)

\* the source kinds `*` and `k -> k`, and the binders of a declaration
KindStar == T("KindStar", "", <<>>)
KindArrow(l, r) == T("KindArrow", "", <<l, r>>)
Implicit(p) == T("Implicit", p, <<>>)
Explicit(p, k) == T("Explicit", p, <<k>>)

\* Kind::infer of a source kind
RECURSIVE InferKind(_)
InferKind(k) ==
    IF k.kind = "KindArrow"
    THEN Kind_arrow(InferKind(k.args[1]), InferKind(k.args[2]))
    ELSE Kind_star

\* `match binder { Implicit(p) => (p, star), Explicit(p, k) => (p, k.infer(())) }`
BinderOf(binder) ==
    [name |-> binder.name,
     kind |-> IF binder.kind = "Implicit" THEN Kind_star
              ELSE InferKind(binder.args[1])]

\* context.report while the location of the context is `at`
Report(kind, a, at) == [kind |-> kind, a |-> a, at |-> at]

\* HashMap::insert
Insert(map, key, value) ==
    [x \in DOMAIN map \cup {key} |-> IF x = key THEN value ELSE map[x]]

\* Type::infer of a source type in a context whose type variables are
\* `types`: the type, its kind and the diagnostics
InferIn(x, types, at) ==
    CASE x.kind = "Type" ->
            [t |-> Type_variable(x.name), k |-> Kind_star, diags |-> <<>>]
      [] x.kind = "TypeVariable" ->
            IF x.name \in DOMAIN types
            THEN [t |-> Type_named(x.name), k |-> types[x.name], diags |-> <<>>]
            ELSE [t |-> Type_error, k |-> Kind_error,
                  diags |-> <<Report("CannotFind", x.name, at)>>]
      [] OTHER -> [t |-> Type_error, k |-> Kind_error, diags |-> <<>>]

\* Kind::unify
KindUnify(k, expected, at) ==
    IF k = expected \/ k = Kind_error \/ expected = Kind_error
    THEN <<>>
    ELSE <<Report("KindMismatch", k.kind, at)>>

\* `let (t, k) = x.infer(&context); k.unify(&context, &Kind::star()); t`
InferStar(x, types, at) ==
    LET r == InferIn(x, types, at)
    IN  [t |-> r.t, diags |-> r.diags \o KindUnify(r.k, Kind_star, at)]

\* mutant: the binders are folded from the front
RECURSIVE FoldForall(_, _)
FoldForall(kinds, acc) ==
    IF kinds = <<>> THEN acc
    ELSE FoldForall(Tail(kinds),
                    Type_forall(Head(kinds).name, Head(kinds).kind, acc))

\* `kinds.into_iter().rfold(acc, |acc, (n, k)| Type::forall(n, k, acc))`
RECURSIVE RFoldForall(_, _)
RFoldForall(kinds, acc) ==
    IF kinds = <<>> THEN acc
    ELSE Type_forall(Head(kinds).name, Head(kinds).kind,
                     RFoldForall(Tail(kinds), acc))

\* `xs.iter().map(|x| ..infer..).rfold(acc, |acc, x| Type::arrow(x, acc))`:
\* the map is lazy, so the types are elaborated by rfold, from the last
\* to the first; `at` locates the i-th of them at at[i]
RECURSIVE RFoldArrow(_, _, _, _)
RFoldArrow(xs, types, acc, at) ==
    IF xs = <<>> THEN [t |-> acc, diags |-> <<>>]
    ELSE LET n == Len(xs)
             x == InferStar(xs[n], types, at[n])
             rest == RFoldArrow(SubSeq(xs, 1, n - 1), types,
                                Type_arrow(x.t, acc), at)
         IN  [t |-> rest.t, diags |-> x.diags \o rest.diags]

\* the body of a type under its leading foralls
RECURSIVE Unforall(_)
Unforall(ty) == IF ty.kind = "Forall" THEN Unforall(ty.args[2]) ELSE ty

\* Type::sub of the generalized `T params` and the declared result t
Sub(foralled, t, at) ==
    IF t = Type_error \/ t = Unforall(foralled) THEN <<>>
    ELSE <<Report("TypeMismatch", t.kind, at)>>

\* the module's table
ModuleTable(constructors, fields, variables, called) ==
    [constructors |-> constructors, fields |-> fields,
     variables |-> variables, called |-> called]

\* the loop of TypeDef::Sum over the constructors from the c-th on
RECURSIVE DefineSum(_, _, _, _, _, _)
DefineSum(constructors, c, types, kinds, ret, table) ==
    IF c > Len(constructors) THEN [table |-> table, diags |-> <<>>]
    ELSE
        LET cons == constructors[c]
            m == Len(cons.args)
            new_ret ==
                IF cons.typ = None THEN [t |-> ret, diags |-> <<>>]
                ELSE LET r == InferStar(cons.typ[1], types, <<c, m + 1>>)
                     IN  [t |-> r.t,
                          diags |-> r.diags \o
                              Sub(RFoldForall(kinds, ret), r.t, <<c, m + 1>>)]
            typ == RFoldArrow(cons.args, types, new_ret.t,
                              [i \in 1..m |-> <<c, i>>])
            inserted ==
                [table EXCEPT !.constructors =
                    Insert(@, cons.name,
                           [typ |-> RFoldForall(kinds, typ.t), arity |-> m])]
            rest == DefineSum(constructors, c + 1, types, kinds, ret, inserted)
        IN  [table |-> rest.table,
             diags |-> new_ret.diags \o typ.diags \o rest.diags]

\* the loop of TypeDef::Record over the fields from the c-th on
RECURSIVE DefineRecord(_, _, _, _, _)
DefineRecord(fields, c, types, kinds, table) ==
    IF c > Len(fields) THEN [table |-> table, diags |-> <<>>]
    ELSE
        LET t == InferStar(fields[c].ty, types, <<c, 1>>)
            inserted ==
                [table EXCEPT !.fields =
                    Insert(@, fields[c].name, RFoldForall(kinds, t.t))]
            rest == DefineRecord(fields, c + 1, types, kinds, inserted)
        IN  [table |-> rest.table, diags |-> t.diags \o rest.diags]

\* TypeDecl::define
TypeDeclDefine(d, table) ==
    LET kinds == [i \in DOMAIN d.binders |-> BinderOf(d.binders[i])]
        types == [n \in {kinds[i].name : i \in DOMAIN kinds} |->
                    kinds[CHOOSE i \in DOMAIN kinds :
                            /\ kinds[i].name = n
                            /\ \A j \in DOMAIN kinds :
                                  kinds[j].name = n => j <= i].kind]
        ret == Type_app(Type_variable(d.name),
                        [i \in DOMAIN kinds |-> Type_named(kinds[i].name)])
    IN  CASE d.def = "Sum" -> DefineSum(d.items, 1, types, kinds, ret, table)
          [] d.def = "Record" -> DefineRecord(d.items, 1, types, kinds, table)
          [] OTHER -> [table |-> table, diags |-> <<>>]

\* TypeKind::free_variables
FreeVariables(x) == IF x.kind = "TypeVariable" THEN {x.name} ELSE {}

\* `fvs.into_iter().fold(typ, |acc, x| Type::forall(x, Kind::star(), acc))`,
\* fvs being handed out in the order `order`
RECURSIVE FoldFvs(_, _)
FoldFvs(order, acc) ==
    IF order = <<>> THEN acc
    ELSE FoldFvs(Tail(order), Type_forall(Head(order), Kind_star, acc))

\* the free variables of the annotations of the binders of a let
BinderFvs(d) == UNION {FreeVariables(d.binders[i]) : i \in DOMAIN d.binders}

\* LetDecl::declare, the HashSet fvs iterating in the order `order`
LetDeclDeclare(d, order, table) ==
    LET fvs == BinderFvs(d)
        types == [fv \in fvs |-> Kind_star]
        n == Len(d.binders)
        ret == IF d.ret = None THEN [t |-> Type_hole, diags |-> <<>>]
               ELSE InferStar(d.ret[1], types, <<1, n + 1>>)
        typ == RFoldArrow(d.binders, types, ret.t, [i \in 1..n |-> <<1, i>>])
    IN  [table |-> [table EXCEPT !.variables =
                        Insert(@, d.name, FoldFvs(order, typ.t))],
         diags |-> ret.diags \o typ.diags]

\* ------------------------------------------------------------------------
\* The signatures: inputs and specification
\* ------------------------------------------------------------------------

MaxArgs == 2

ArgTypes ==
    {TypeConstructor("Int"), TypeVariable("a"), TypeVariable("b"),
     TypeVariable("f")}

RetTypes ==
    {None, Some(TypeConstructor("Int")), Some(TypeVariable("a")),
     Some(TypeVariable("c"))}

TypeBinders ==
    {<<>>, <<Implicit("a")>>, <<Implicit("a"), Implicit("b")>>,
     <<Implicit("a"), Explicit("f", KindArrow(KindStar, KindStar))>>}

Constructor(name, args, typ) == [name |-> name, args |-> args, typ |-> typ]

Constructors ==
    {<<c>> \o rest :
        c \in {Constructor("C", as, r) :
                  as \in SeqsUpTo(ArgTypes, MaxArgs), r \in RetTypes},
        rest \in {<<>>, <<Constructor("D", <<>>, None)>>,
                  <<Constructor("D", <<TypeVariable("b")>>,
                                Some(TypeConstructor("Int")))>>}}

TypeDeclOf(name, binders, def, items) ==
    [kind |-> "TypeDecl", name |-> name, binders |-> binders,
     def |-> def, items |-> items]

TypeDecls ==
    {TypeDeclOf("T", bs, "Sum", cs) : bs \in TypeBinders, cs \in Constructors}
        \cup {TypeDeclOf("T", bs, "Record", fs) :
                bs \in TypeBinders,
                fs \in {<<>>, <<[name |-> "x", ty |-> TypeConstructor("Int")]>>,
                        <<[name |-> "x", ty |-> TypeVariable("b")],
                          [name |-> "y", ty |-> TypeVariable("f")]>>}}
        \cup {TypeDeclOf("T", bs, "Abstract", <<>>) : bs \in TypeBinders}

LetDeclOf(name, binders, ret) ==
    [kind |-> "LetDecl", name |-> name, binders |-> binders, ret |-> ret]

LetDecls ==
    {LetDeclOf("f", bs, r) :
        bs \in SeqsUpTo(ArgTypes, MaxArgs), r \in RetTypes}

InitSignature ==
    /\ decl \in TypeDecls \cup LetDecls
    /\ module_table = ModuleTable(<<>>, <<>>, <<>>, FALSE)
    /\ diagnostics = <<>>
    /\ DesugarIdle
    /\ InferIdle
    /\ DeclareIdle
    /\ KindIdle

\* one call of TypeDecl::define on decl
DefineType ==
    /\ decl.kind = "TypeDecl"
    /\ ~module_table.called
    /\ LET r == TypeDeclDefine(decl, module_table)
       IN  /\ module_table' = [r.table EXCEPT !.called = TRUE]
           /\ diagnostics' = diagnostics \o r.diags
    /\ UNCHANGED <<decl, desugarVars, inferVars, declareVars, kindVars>>

\* one call of LetDecl::declare on decl
DeclareLet ==
    /\ decl.kind = "LetDecl"
    /\ ~module_table.called
    /\ \E order \in Orders(BinderFvs(decl)) :
          LET r == LetDeclDeclare(decl, order, module_table)
          IN  /\ module_table' = [r.table EXCEPT !.called = TRUE]
              /\ diagnostics' = diagnostics \o r.diags
    /\ UNCHANGED <<decl, desugarVars, inferVars, declareVars, kindVars>>

NextSignature == DefineType \/ DeclareLet

SpecSignature == InitSignature /\ [][NextSignature]_vars

\* ------------------------------------------------------------------------
\* The signatures: properties
\* ------------------------------------------------------------------------

\* position `a` of the source comes before position `b`
Before(a, b) == a[1] < b[1] \/ (a[1] = b[1] /\ a[2] < b[2])

\* C11: the diagnostics of a unit are reported in source order: for the
\* argument and return types of a constructor and for the binder and
\* return annotations of a let signature, no diagnostic is reported after
\* a diagnostic of a later position.
C11_SourceOrder ==
    \A i, j \in DOMAIN diagnostics :
        i < j => ~Before(diagnostics[j].at, diagnostics[i].at)

\* `C b Int : c` in a type without b and c: the return type was reported
\* before the first argument
C11_Witness ==
    /\ module_table.called
    /\ decl.kind = "TypeDecl"
    /\ diagnostics = <<Report("CannotFind", "c", <<1, 3>>),
                       Report("CannotFind", "b", <<1, 1>>)>>

\* the type under the first i foralls and arrows of ty
RECURSIVE Under(_, _)
Under(ty, i) == IF i = 0 THEN ty ELSE Under(ty.args[2], i - 1)

\* the context while the constructors of d are elaborated: the binders
TypesOf(d) ==
    [n \in {d.binders[i].name : i \in DOMAIN d.binders} |->
        BinderOf(CHOOSE b \in {d.binders[i] : i \in DOMAIN d.binders} :
                    b.name = n).kind]

\* C12: defining a sum type T with parameters p1..pn stores for each
\* constructor with arguments a1..am the pair (scheme, m), the scheme
\* being forall p1..pn. a1 -> .. -> am -> Result with p1 outermost, and
\* Result being T p1..pn, or the declared return type when there is one.
C12_ConstructorScheme ==
    (module_table.called /\ decl.kind = "TypeDecl" /\ decl.def = "Sum") =>
        \A c \in DOMAIN decl.items :
            LET cons == decl.items[c]
                n == Len(decl.binders)
                m == Len(cons.args)
                stored == module_table.constructors[cons.name]
            IN  /\ cons.name \in DOMAIN module_table.constructors
                /\ stored.arity = m
                /\ \A i \in 1..n :
                      /\ Under(stored.typ, i - 1).kind = "Forall"
                      /\ Under(stored.typ, i - 1).name = decl.binders[i].name
                      /\ Under(stored.typ, i - 1).args[1]
                            = BinderOf(decl.binders[i]).kind
                /\ \A j \in 1..m :
                      /\ Under(stored.typ, n + j - 1).kind = "Arrow"
                      /\ Under(stored.typ, n + j - 1).args[1]
                            = InferIn(cons.args[j], TypesOf(decl), <<c, j>>).t
                /\ Under(stored.typ, n + m)
                      = IF cons.typ = None
                        THEN Type_app(Type_variable(decl.name),
                                      [i \in 1..n |-> Type_named(decl.binders[i].name)])
                        ELSE InferIn(cons.typ[1], TypesOf(decl), <<c, m + 1>>).t

\* type T a f = C a Int | D b : Int
C12_Witness ==
    /\ module_table.called
    /\ decl = TypeDeclOf("T",
                <<Implicit("a"), Explicit("f", KindArrow(KindStar, KindStar))>>,
                "Sum",
                <<Constructor("C", <<TypeVariable("a"), TypeConstructor("Int")>>, None),
                  Constructor("D", <<TypeVariable("b")>>,
                              Some(TypeConstructor("Int")))>>)
    /\ module_table.constructors["C"]
          = [typ |-> Type_forall("a", Kind_star,
                       Type_forall("f", Kind_arrow(Kind_star, Kind_star),
                         Type_arrow(Type_named("a"),
                           Type_arrow(Type_variable("Int"),
                             Type_app(Type_variable("T"),
                                      <<Type_named("a"), Type_named("f")>>))))),
             arity |-> 2]
    /\ module_table.constructors["D"].arity = 1
    /\ Unforall(module_table.constructors["D"].typ)
          = Type_arrow(Type_error, Type_variable("Int"))

\* the names and the kinds of the leading foralls of ty
RECURSIVE Generalized(_)
Generalized(ty) ==
    IF ty.kind = "Forall"
    THEN {<<ty.name, ty.args[1]>>} \cup Generalized(ty.args[2])
    ELSE {}

\* the free variables of all the annotations of a let, binders and return
AnnotationFvs(d) ==
    BinderFvs(d) \cup (IF d.ret = None THEN {} ELSE FreeVariables(d.ret[1]))

\* C20: the signature that declare stores for a let with the binder
\* annotations t1..tn and the return annotation r is
\* forall fvs. t1 -> .. -> tn -> r (r a hole when there is none), fvs
\* holding every free type variable of a binder annotation or of the return
\* annotation, each generalized with kind Star and in scope while the
\* annotations are elaborated.
C20_LetSignature ==
    (module_table.called /\ decl.kind = "LetDecl") =>
        LET stored == module_table.variables[decl.name]
            n == Len(decl.binders)
            fvs == AnnotationFvs(decl)
            types == [fv \in fvs |-> Kind_star]
            body == Unforall(stored)
        IN  /\ {<<fv, Kind_star>> : fv \in fvs} \subseteq Generalized(stored)
            /\ \A k \in DOMAIN diagnostics : diagnostics[k].kind # "CannotFind"
            /\ \A i \in 1..n :
                  /\ Under(body, i - 1).kind = "Arrow"
                  /\ Under(body, i - 1).args[1]
                        = InferIn(decl.binders[i], types, <<1, i>>).t
            /\ Under(body, n)
                  = IF decl.ret = None THEN Type_hole
                    ELSE InferIn(decl.ret[1], types, <<1, n + 1>>).t

\* let f (x : Int) : c is stored as Int -> Error, and c was not found
C20_Witness ==
    /\ module_table.called
    /\ decl = LetDeclOf("f", <<TypeConstructor("Int")>>, Some(TypeVariable("c")))
    /\ module_table.variables["f"]
          = Type_arrow(Type_variable("Int"), Type_error)
    /\ diagnostics = <<Report("CannotFind", "c", <<1, 2>>)>>

\* ------------------------------------------------------------------------
\* Typer: kind inference of the source types (infer/type.rs)
\* ------------------------------------------------------------------------

\* the kind that ctx.hole makes; Kind::typ() is Kind_star
Kind_hole == T("Hole", "", <<>>)

\* Type<Real>
Type_bound(index) == T("Bound", ToString(index), <<>>)
Type_application(ty, args) == T("Application", "", <<ty>> \o args)
Type_tuple(types) == T("Tuple", "", types)
Type_pi(ty, body) == T("Pi", "", <<ty, body>>)

\* r#abstract::TypeKind
TypePi(left, right) == T("Pi", "", <<left, right>>)
TypeTuple(t) == T("Tuple", "", t)
TypeApplication(func, args) == T("Application", "", <<func>> \o args)
TypeForall(params, body) == T("Forall", "", <<T("Params", "", params), body>>)
TypeUnit == T("Unit", "", <<>>)
TypeErrorKind == T("Error", "", <<>>)

\* ctx.modules.typ(name).kind: the kinds of the types of the module table
TypeKinds ==
    [name \in {"Int", "List", "Pair"} |->
        CASE name = "Int" -> Kind_star
          [] name = "List" -> Kind_arrow(Kind_star, Kind_star)
          [] name = "Pair" -> Kind_arrow(Kind_star, Kind_arrow(Kind_star, Kind_star))]

\* Eval and Quote of a kind: kinds hold no variables, so both rebuild the
\* kind as it is
RECURSIVE Eval(_, _)
Eval(k, e) ==
    IF k.kind = "Arrow" THEN Kind_arrow(Eval(k.args[1], e), Eval(k.args[2], e))
    ELSE k

RECURSIVE Quote(_, _)
Quote(k, level) ==
    IF k.kind = "Arrow"
    THEN Kind_arrow(Quote(k.args[1], level), Quote(k.args[2], level))
    ELSE k

\* Env::add: the name and its kind become the innermost binding
EnvAdd(e, name, ty) == Append(e, [name |-> name, kind |-> ty])

\* Env::find: the innermost binding of name, as (index, kind), the index
\* counting the bindings made after it
EnvFind(e, name) ==
    LET S == {i \in DOMAIN e : e[i].name = name}
    IN  IF S = {} THEN None
        ELSE LET i == CHOOSE i \in S : \A j \in S : j <= i
             IN  Some([index |-> Len(e) - i, kind |-> e[i].kind])

\* Context::subsumes of two kinds
Subsumes(kind, expected) ==
    IF kind = expected \/ kind.kind \in {"Error", "Hole"}
       \/ expected.kind \in {"Error", "Hole"}
    THEN <<>>
    ELSE <<TypeError("KindMismatch", kind.kind, expected.kind)>>

\* what Type::infer returns, with the diagnostics it reported
Kinded(t, k, diags) == [t |-> t, k |-> k, diags |-> diags]

\* mutant: the head keeps the kind of the parameter
ArrowTy(arrow) == arrow.args[1]

\* `k = arrow.body.clone()`
ArrowBody(arrow) == arrow.args[2]

\* `names.into_iter().fold(ty, |body, (name, kind)| Type::forall(..))`
RECURSIVE FoldNames(_, _, _)
FoldNames(names, level, body) ==
    IF names = <<>> THEN body
    ELSE FoldNames(Tail(names), level,
                   Type_forall(Head(names).name, Quote(Head(names).kind, level),
                               body))

\* the loop of TypeKind::Forall over the params: the (name, kind) pairs
ForallNames(params, e) ==
    [i \in DOMAIN params |->
        [name |-> params[i].name,
         kind |-> IF params[i].kind = "Implicit" THEN Kind_hole
                  ELSE Eval(InferKind(params[i].args[1]), e)]]

\* the env after the loop of TypeKind::Forall
RECURSIVE ForallEnv(_, _)
ForallEnv(names, e) ==
    IF names = <<>> THEN e
    ELSE ForallEnv(Tail(names), EnvAdd(e, Head(names).name, Head(names).kind))

RECURSIVE TypeInfer(_, _), InferTuple(_, _), InferArgs(_, _, _, _, _)

\* impl Infer for r#abstract::Type
TypeInfer(x, e) ==
    CASE x.kind = "Pi" ->
            LET left == TypeInfer(x.args[1], e)
                right == TypeInfer(x.args[2], e)
            IN  Kinded(Type_pi(left.t, right.t), Kind_star,
                       left.diags \o Subsumes(left.k, Kind_star)
                           \o right.diags \o Subsumes(right.k, Kind_star))
      [] x.kind = "Tuple" ->
            LET r == InferTuple(x.args, e)
            IN  Kinded(Type_tuple(r.types), Kind_star, r.diags)
      [] x.kind = "Application" ->
            LET func == TypeInfer(x.args[1], e)
                r == InferArgs(Tail(x.args), 1, func.k, <<>>, e)
            IN  IF r.returned
                THEN Kinded(Type_error, Kind_error, func.diags \o r.diags)
                ELSE Kinded(Type_application(func.t, r.args), r.k,
                            func.diags \o r.diags)
      [] x.kind = "Forall" ->
            LET names == ForallNames(x.args[1].args, e)
                inner == ForallEnv(names, e)
                body == TypeInfer(x.args[2], inner)
            IN  Kinded(FoldNames(names, Len(inner), body.t), body.k, body.diags)
      [] x.kind = "TypeVariable" ->
            LET found == EnvFind(e, x.name)
            IN  IF found = None
                THEN Kinded(Type_error, Kind_error,
                            <<TypeError("CannotFind", x.name, "")>>)
                ELSE Kinded(Type_bound(found[1].index), found[1].kind, <<>>)
      [] x.kind = "Type" ->
            Kinded(Type_variable(x.name), Eval(TypeKinds[x.name], e), <<>>)
      [] x.kind = "Unit" -> Kinded(Type_tuple(<<>>), Kind_star, <<>>)
      [] OTHER -> Kinded(Type_error, Kind_error, <<>>)

\* the loop of TypeKind::Tuple
InferTuple(t, e) ==
    IF t = <<>> THEN [types |-> <<>>, diags |-> <<>>]
    ELSE LET ty == TypeInfer(Head(t), e)
             rest == InferTuple(Tail(t), e)
         IN  [types |-> <<ty.t>> \o rest.types,
              diags |-> ty.diags \o Subsumes(ty.k, Kind_star) \o rest.diags]

\* the loop of TypeKind::Application over the args from the i-th on, k
\* being the kind of the head by now and args the types pushed so far
InferArgs(app_args, i, k, args, e) ==
    IF i > Len(app_args)
    THEN [returned |-> FALSE, args |-> args, k |-> k, diags |-> <<>>]
    ELSE
        LET arg == TypeInfer(app_args[i], e)
        IN  CASE k.kind = "Arrow" ->
                    LET rest == InferArgs(app_args, i + 1, ArrowBody(k),
                                          Append(args, arg.t), e)
                    IN  [rest EXCEPT !.diags =
                            arg.diags \o Subsumes(arg.k, k.args[1]) \o @]
              [] k.kind = "Error" ->
                    [returned |-> TRUE, args |-> <<>>, k |-> Kind_error,
                     diags |-> arg.diags]
              [] OTHER ->
                    [returned |-> TRUE, args |-> <<>>, k |-> Kind_error,
                     diags |-> arg.diags \o
                         <<TypeError("NotAFunction", k.kind, "")>>]

\* ------------------------------------------------------------------------
\* Kind inference: inputs and specification
\* ------------------------------------------------------------------------

TypeLeaves ==
    {TypeConstructor("Int"), TypeConstructor("List"), TypeVariable("a"),
     TypeVariable("z"), TypeErrorKind}

TypeArgs ==
    {TypeConstructor("Int"), TypeConstructor("List"), TypeVariable("z"),
     TypeApplication(TypeConstructor("Int"), <<TypeUnit>>)}

SourceTypes ==
    TypeLeaves \cup {TypeUnit}
        \cup {TypeApplication(h, as) :
                h \in TypeLeaves \cup {TypeConstructor("Pair"), TypeVariable("f")},
                as \in SeqsUpTo(TypeArgs, MaxArgs)}
        \cup {TypeForall(ps, b) :
                ps \in {<<Implicit("a")>>, <<Implicit("a"), Implicit("b")>>,
                        <<Implicit("a"),
                          Explicit("f", KindArrow(KindStar, KindStar))>>,
                        <<Implicit("a"), Implicit("a")>>},
                b \in {TypeVariable("a"), TypeVariable("b"), TypeConstructor("Int"),
                       TypeApplication(TypeVariable("f"), <<TypeVariable("a")>>),
                       TypeApplication(TypeConstructor("List"),
                                       <<TypeVariable("a")>>),
                       TypePi(TypeVariable("a"), TypeVariable("b"))}}
        \cup {TypeTuple(ts) : ts \in SeqsUpTo(TypeLeaves, MaxArgs)}
        \cup {TypePi(l, r) : l \in TypeLeaves, r \in TypeLeaves}

KindEnvs ==
    {<<>>, <<[name |-> "a", kind |-> Kind_star]>>,
     <<[name |-> "f", kind |-> Kind_arrow(Kind_star, Kind_star)],
       [name |-> "a", kind |-> Kind_hole]>>}

InitKind ==
    /\ source_type \in SourceTypes
    /\ env \in KindEnvs
    /\ kinded = [called |-> FALSE] @@ Kinded(Type_error, Kind_error, <<>>)
    /\ DesugarIdle
    /\ InferIdle
    /\ DeclareIdle
    /\ SignatureIdle

\* one call of Type::infer on source_type in env
InferSourceType ==
    /\ ~kinded.called
    /\ kinded' = [called |-> TRUE] @@ TypeInfer(source_type, env)
    /\ UNCHANGED <<source_type, env, desugarVars, inferVars, declareVars,
                   signatureVars>>

NextKind == InferSourceType

SpecKind == InitKind /\ [][NextKind]_vars

\* ------------------------------------------------------------------------
\* Kind inference: properties
\* ------------------------------------------------------------------------

\* the params and the body of source_type, a forall
Params == source_type.args[1].args
Body == source_type.args[2]

\* C18: kind inference of `forall x1 .. xn. body` returns a type whose
\* foralls are nested in source order, x1 outermost and xn innermost, each
\* with the name and the kind of its own binder, around the type of the
\* body elaborated under the binders; the kind returned is the body's.
C18_ForallOrder ==
    (kinded.called /\ source_type.kind = "Forall") =>
        LET names == ForallNames(Params, env)
            n == Len(Params)
            body == TypeInfer(Body, ForallEnv(names, env))
        IN  /\ \A i \in 1..n :
                  /\ Under(kinded.t, i - 1).kind = "Forall"
                  /\ Under(kinded.t, i - 1).name = Params[i].name
                  /\ Under(kinded.t, i - 1).args[1] = names[i].kind
            /\ Under(kinded.t, n) = body.t
            /\ kinded.k = body.k

\* forall a (f : * -> *). f a: index 0 is f and index 1 is a, and the
\* forall of a is the innermost one
C18_Witness ==
    /\ kinded.called
    /\ source_type =
          TypeForall(<<Implicit("a"), Explicit("f", KindArrow(KindStar, KindStar))>>,
                     TypeApplication(TypeVariable("f"), <<TypeVariable("a")>>))
    /\ kinded.t =
          Type_forall("f", Kind_arrow(Kind_star, Kind_star),
              Type_forall("a", Kind_hole,
                  Type_application(Type_bound(0), <<Type_bound(1)>>)))
    /\ kinded.k = Kind_star

\* the head and the args of source_type, an application
Func == source_type.args[1]
Args == Tail(source_type.args)

\* the kind of the head once i args were consumed, None when that many
\* cannot be consumed
RECURSIVE HeadKind(_, _)
HeadKind(k, i) ==
    IF i = 0 THEN Some(k)
    ELSE IF k.kind = "Arrow" THEN HeadKind(k.args[2], i - 1)
    ELSE None

\* the diagnostics of the args 1..i, each followed by what subsuming its
\* kind under the parameter of the head reports
RECURSIVE ConsumedDiags(_, _)
ConsumedDiags(k, i) ==
    IF i = 0 THEN <<>>
    ELSE ConsumedDiags(k, i - 1)
            \o TypeInfer(Args[i], env).diags
            \o Subsumes(TypeInfer(Args[i], env).k, HeadKind(k, i - 1)[1].args[1])

\* C19: kind inference of an application consumes the args from left to
\* right: while the kind of the head is Arrow(k1, k2) the kind of the arg is
\* subsumed under k1 and the head's kind becomes k2, and the kind returned
\* is the head's after the last arg. At an arg where the head's kind is
\* Error the result is (Error, Error) and nothing new is reported; where it
\* is any other kind, NotAFunction is reported once and the result is
\* (Error, Error).
C19_Application ==
    (kinded.called /\ source_type.kind = "Application") =>
        LET func == TypeInfer(Func, env)
            n == Len(Args)
            stuck == {i \in 1..n : HeadKind(func.k, i) = None}
        IN  IF stuck = {}
            THEN /\ kinded.k = HeadKind(func.k, n)[1]
                 /\ kinded.t = Type_application(func.t,
                                   [i \in 1..n |-> TypeInfer(Args[i], env).t])
                 /\ kinded.diags = func.diags \o ConsumedDiags(func.k, n)
            ELSE LET i == CHOOSE i \in stuck : \A j \in stuck : i <= j
                     k == HeadKind(func.k, i - 1)[1]
                     upto == func.diags \o ConsumedDiags(func.k, i - 1)
                                \o TypeInfer(Args[i], env).diags
                 IN  /\ kinded.t = Type_error
                     /\ kinded.k = Kind_error
                     /\ kinded.diags =
                           IF k.kind = "Error" THEN upto
                           ELSE upto \o <<TypeError("NotAFunction", k.kind, "")>>

\* Pair Int List: both args are consumed, the second is not of kind *
C19_Witness ==
    /\ kinded.called
    /\ source_type = TypeApplication(TypeConstructor("Pair"),
                         <<TypeConstructor("Int"), TypeConstructor("List")>>)
    /\ kinded.t = Type_application(Type_variable("Pair"),
                      <<Type_variable("Int"), Type_variable("List")>>)
    /\ kinded.k = Kind_star
    /\ kinded.diags = <<TypeError("KindMismatch", "Arrow", "Star")>>

====
